---- MODULE Spec2Model ----
(***************************************************************************)
(* NanoERP: the invoice / payment / stock core (models.py, database.py)    *)
(* and the invoice page that drives it (ui/invoices.py).                   *)
(*                                                                         *)
(* Money, percentages and quantities are Python floats in the source; the  *)
(* model computes them as exact rationals [n, d] in lowest terms, so an    *)
(* equality of the model is an equality up to floating-point rounding of   *)
(* the program.  Strings that the program parses (invoice numbers, the     *)
(* next_invoice_number setting) are sequences of characters, a character   *)
(* being a decimal digit or a letter.                                     *)
(***************************************************************************)
EXTENDS Integers, Sequences, FiniteSets, TLC

\* ------------------------------------------------------------------ bounds
MaxInvoices == 2      \* invoice rows ever inserted
MaxItems == 2         \* items in one invoice's item list
MaxPayments == 3      \* payment rows ever inserted
MaxProducts == 1      \* product rows ever inserted
MaxItemRows == 3      \* invoice_items rows ever inserted
MaxFaults == 1        \* statements the store fails
MaxCustomers == 1     \* customer rows ever inserted

\* ------------------------------------------------------- exact arithmetic
Abs(x) == IF x < 0 THEN -x ELSE x

RECURSIVE Gcd(_, _)
Gcd(a, b) == IF b = 0 THEN a ELSE Gcd(b, a % b)

\* the rational n/d (d # 0) in lowest terms with a positive denominator
Rat(n, d) ==
    LET g == Gcd(Abs(n), Abs(d))
        s == IF d < 0 THEN -1 ELSE 1
    IN  [n |-> s * (n \div g), d |-> s * (d \div g)]

FromInt(i) == [n |-> i, d |-> 1]
Zero == FromInt(0)
Hundred == FromInt(100)
RAdd(a, b) == Rat(a.n * b.d + b.n * a.d, a.d * b.d)
RSub(a, b) == Rat(a.n * b.d - b.n * a.d, a.d * b.d)
RMul(a, b) == Rat(a.n * b.n, a.d * b.d)
RDiv(a, b) == Rat(a.n * b.d, a.d * b.n)
RLt(a, b) == a.n * b.d < b.n * a.d
RLe(a, b) == a.n * b.d <= b.n * a.d
RMin(a, b) == IF RLe(a, b) THEN a ELSE b

\* ---------------------------------------------------------------- strings
\* A string is a sequence of characters; the characters are the decimal
\* digits and one letter.
DigitChars == << "0", "1", "2", "3", "4", "5", "6", "7", "8", "9" >>
IsDigit(c) == \E i \in 1..Len(DigitChars) : DigitChars[i] = c
DigitOf(c) == (CHOOSE i \in 1..Len(DigitChars) : DigitChars[i] = c) - 1

RECURSIVE DigitsValue(_)
DigitsValue(s) ==
    IF s = << >> THEN 0
    ELSE 10 * DigitsValue(SubSeq(s, 1, Len(s) - 1)) + DigitOf(s[Len(s)])

\* int(s) raises ValueError unless s is a non-empty run of digits
IsNumeric(s) == s # << >> /\ \A i \in 1..Len(s) : IsDigit(s[i])
ParseInt(s) == DigitsValue(s)

\* str(n) for n >= 0
RECURSIVE ToStr(_)
ToStr(n) ==
    IF n < 10 THEN << DigitChars[n + 1] >>
    ELSE ToStr(n \div 10) \o << DigitChars[(n % 10) + 1] >>

\* ------------------------------------------------------------ the objects
\* InvoiceItem (a dataclass): total is 0 until calculate_total runs
InvoiceItem(pid, qty, price) ==
    [product_id |-> pid, quantity |-> qty, unit_price |-> price, total |-> Zero]

\* a calculate_total that adds to the total it finds
calculate_total_Adding(item) ==
    [item EXCEPT !.total = RAdd(item.total,
                                RMul(FromInt(item.quantity), item.unit_price))]

calculate_total(item) ==
    [item EXCEPT !.total = RMul(FromInt(item.quantity), item.unit_price)]

\* Invoice (a dataclass) with its defaults; id 0 is None
Invoice ==
    [id |-> 0, invoice_number |-> << >>, status |-> "pending", items |-> << >>,
     subtotal |-> Zero, discount_amount |-> Zero, discount_percentage |-> Zero,
     discounted_subtotal |-> Zero, tax_rate |-> FromInt(18), tax_amount |-> Zero,
     total |-> Zero, payments |-> << >>, customer_id |-> 0]

RECURSIVE SumTotals(_)
SumTotals(items) ==
    IF items = << >> THEN Zero
    ELSE RAdd(SumTotals(Tail(items)), Head(items).total)

\* a discount branch that looks at the amount first
DiscountAmountFirst(subtotal, amount, percentage) ==
    IF RLt(Zero, amount)
    THEN [amount |-> RMin(amount, subtotal), percentage |-> percentage]
    ELSE [amount |-> RMul(subtotal, RDiv(percentage, Hundred)),
          percentage |-> percentage]

\* a discount branch that takes the amount as it is given
DiscountUnclamped(subtotal, amount, percentage) ==
    IF RLt(Zero, percentage)
    THEN [amount |-> RMul(subtotal, RDiv(percentage, Hundred)),
          percentage |-> percentage]
    ELSE [amount |-> amount,
          percentage |-> IF RLt(Zero, subtotal)
                         THEN RMul(RDiv(amount, subtotal), Hundred)
                         ELSE percentage]

\* the discount branch of Invoice.calculate_totals: [amount, percentage]
Discount(subtotal, amount, percentage) ==
    IF RLt(Zero, percentage)
    THEN [amount |-> RMul(subtotal, RDiv(percentage, Hundred)),
          percentage |-> percentage]
    ELSE LET a == RMin(amount, subtotal)
         IN  [amount |-> a,
              percentage |-> IF RLt(Zero, subtotal)
                             THEN RMul(RDiv(a, subtotal), Hundred)
                             ELSE percentage]

\* a calculate_totals that taxes the subtotal before the discount
calculate_totals_TaxOnSubtotal(inv) ==
    LET items == [i \in 1..Len(inv.items) |-> calculate_total(inv.items[i])]
        subtotal == SumTotals(items)
        disc == Discount(subtotal, inv.discount_amount, inv.discount_percentage)
        discounted == RSub(subtotal, disc.amount)
        tax == RMul(subtotal, RDiv(inv.tax_rate, Hundred))
    IN  [inv EXCEPT !.items = items,
                    !.subtotal = subtotal,
                    !.discount_amount = disc.amount,
                    !.discount_percentage = disc.percentage,
                    !.discounted_subtotal = discounted,
                    !.tax_amount = tax,
                    !.total = RAdd(discounted, tax)]

calculate_totals(inv) ==
    LET items == [i \in 1..Len(inv.items) |-> calculate_total(inv.items[i])]
        subtotal == SumTotals(items)
        disc == Discount(subtotal, inv.discount_amount, inv.discount_percentage)
        discounted == RSub(subtotal, disc.amount)
        tax == RMul(discounted, RDiv(inv.tax_rate, Hundred))
    IN  [inv EXCEPT !.items = items,
                    !.subtotal = subtotal,
                    !.discount_amount = disc.amount,
                    !.discount_percentage = disc.percentage,
                    !.discounted_subtotal = discounted,
                    !.tax_amount = tax,
                    !.total = RAdd(discounted, tax)]

\* ------------------------------------------------------------- the store
\* The SQLite file: the tables the invoice core reads and writes.  Every id
\* column is AUTOINCREMENT, so seq (sqlite_sequence) only grows.
EmptyStore ==
    [invoices |-> << >>, invoice_items |-> {}, payments |-> {},
     products |-> << >>, settings |-> << >>, customers |-> << >>,
     seq |-> [invoices |-> 0, invoice_items |-> 0, payments |-> 0, products |-> 0,
              customers |-> 0]]

NextNumberKey == "next_invoice_number"

\* the header columns Invoice.save writes from the object
HeaderRow(inv) ==
    [invoice_number |-> inv.invoice_number, status |-> inv.status,
     customer_id |-> inv.customer_id,
     subtotal |-> inv.subtotal, discount_amount |-> inv.discount_amount,
     discount_percentage |-> inv.discount_percentage,
     discounted_subtotal |-> inv.discounted_subtotal, tax_rate |-> inv.tax_rate,
     tax_amount |-> inv.tax_amount, total |-> inv.total]

ItemsOf(st, id) == {r \in st.invoice_items : r.invoice_id = id}
PaymentsOf(st, id) == {r \in st.payments : r.invoice_id = id}

\* One SQL statement handed to Database.execute.
Stmt(op, id, arg) == [op |-> op, id |-> id, arg |-> arg]

\* Does SQLite accept the statement?  UNIQUE(invoice_number) and the NOT NULL
\* of payments.invoice_id are the constraints these statements can break;
\* foreign keys are not enforced (no PRAGMA foreign_keys on the connection).
Accepts(st, s) ==
    CASE s.op = "insert_invoice" ->
           \A i \in DOMAIN st.invoices :
               st.invoices[i].invoice_number # s.arg.invoice_number
      [] s.op = "insert_payment" -> s.id # 0
      [] OTHER -> TRUE

\* a function with one point added or replaced
Put(f, k, v) == [x \in DOMAIN f \cup {k} |-> IF x = k THEN v ELSE f[x]]
Drop(f, k) == [x \in DOMAIN f \ {k} |-> f[x]]

\* a store that enforces the foreign keys of payments and invoices by
\* cascading
ApplyCascading(st, s) ==
    CASE s.op = "insert_invoice" ->
           LET id == st.seq.invoices + 1
           IN  [st EXCEPT !.invoices = Put(@, id, HeaderRow(s.arg)),
                          !.seq.invoices = id]
      [] s.op = "update_invoice" ->
           IF s.id \in DOMAIN st.invoices
           THEN [st EXCEPT !.invoices[s.id] =
                    [HeaderRow(s.arg) EXCEPT
                        !.invoice_number = st.invoices[s.id].invoice_number]]
           ELSE st
      [] s.op = "update_status" ->
           IF s.id \in DOMAIN st.invoices
           THEN [st EXCEPT !.invoices[s.id].status = s.arg]
           ELSE st
      [] s.op = "delete_invoice" ->
           [st EXCEPT !.invoices = Drop(@, s.id),
                      !.payments = {r \in @ : r.invoice_id # s.id}]
      [] s.op = "insert_item" ->
           LET id == st.seq.invoice_items + 1
           IN  [st EXCEPT !.invoice_items = @ \cup
                    {[id |-> id, invoice_id |-> s.id,
                      product_id |-> s.arg.product_id,
                      quantity |-> s.arg.quantity,
                      unit_price |-> s.arg.unit_price,
                      total |-> s.arg.total]},
                          !.seq.invoice_items = id]
      [] s.op = "delete_items" ->
           [st EXCEPT !.invoice_items = {r \in @ : r.invoice_id # s.id}]
      [] s.op = "insert_payment" ->
           LET id == st.seq.payments + 1
           IN  [st EXCEPT !.payments = @ \cup
                    {[id |-> id, invoice_id |-> s.id, amount |-> s.arg]},
                          !.seq.payments = id]
      [] s.op = "update_setting" ->
           IF NextNumberKey \in DOMAIN st.settings
           THEN [st EXCEPT !.settings[NextNumberKey] = s.arg]
           ELSE st
      [] s.op = "insert_setting" ->
           IF NextNumberKey \in DOMAIN st.settings
           THEN st
           ELSE [st EXCEPT !.settings = Put(@, NextNumberKey, s.arg)]
      [] s.op = "replace_setting" ->
           [st EXCEPT !.settings = Put(@, s.arg.key, s.arg.value)]
      [] s.op = "insert_product" ->
           LET id == st.seq.products + 1
           IN  [st EXCEPT !.products = Put(@, id, s.arg), !.seq.products = id]
      [] s.op = "update_stock" ->
           IF s.id \in DOMAIN st.products
           THEN [st EXCEPT !.products[s.id].stock = s.arg]
           ELSE st
      [] s.op = "insert_customer" ->
           LET id == st.seq.customers + 1
           IN  [st EXCEPT !.customers = Put(@, id, s.arg), !.seq.customers = id]
      [] s.op = "delete_customer" ->
           [st EXCEPT !.customers = Drop(@, s.id),
                      !.invoices = [i \in {j \in DOMAIN @ : @[j].customer_id # s.id}
                                      |-> @[i]]]
      [] OTHER -> st

\* The store after the statement has run (and been committed).
Apply(st, s) ==
    CASE s.op = "insert_invoice" ->
           LET id == st.seq.invoices + 1
           IN  [st EXCEPT !.invoices = Put(@, id, HeaderRow(s.arg)),
                          !.seq.invoices = id]
      [] s.op = "update_invoice" ->
           IF s.id \in DOMAIN st.invoices
           THEN [st EXCEPT !.invoices[s.id] =
                    [HeaderRow(s.arg) EXCEPT
                        !.invoice_number = st.invoices[s.id].invoice_number]]
           ELSE st
      [] s.op = "update_status" ->
           IF s.id \in DOMAIN st.invoices
           THEN [st EXCEPT !.invoices[s.id].status = s.arg]
           ELSE st
      [] s.op = "delete_invoice" ->
           [st EXCEPT !.invoices = Drop(@, s.id)]
      [] s.op = "insert_item" ->
           LET id == st.seq.invoice_items + 1
           IN  [st EXCEPT !.invoice_items = @ \cup
                    {[id |-> id, invoice_id |-> s.id,
                      product_id |-> s.arg.product_id,
                      quantity |-> s.arg.quantity,
                      unit_price |-> s.arg.unit_price,
                      total |-> s.arg.total]},
                          !.seq.invoice_items = id]
      [] s.op = "delete_items" ->
           [st EXCEPT !.invoice_items = {r \in @ : r.invoice_id # s.id}]
      [] s.op = "insert_payment" ->
           LET id == st.seq.payments + 1
           IN  [st EXCEPT !.payments = @ \cup
                    {[id |-> id, invoice_id |-> s.id, amount |-> s.arg]},
                          !.seq.payments = id]
      [] s.op = "update_setting" ->
           IF NextNumberKey \in DOMAIN st.settings
           THEN [st EXCEPT !.settings[NextNumberKey] = s.arg]
           ELSE st
      [] s.op = "insert_setting" ->
           IF NextNumberKey \in DOMAIN st.settings
           THEN st
           ELSE [st EXCEPT !.settings = Put(@, NextNumberKey, s.arg)]
      [] s.op = "replace_setting" ->
           [st EXCEPT !.settings = Put(@, s.arg.key, s.arg.value)]
      [] s.op = "insert_product" ->
           LET id == st.seq.products + 1
           IN  [st EXCEPT !.products = Put(@, id, s.arg), !.seq.products = id]
      [] s.op = "update_stock" ->
           IF s.id \in DOMAIN st.products
           THEN [st EXCEPT !.products[s.id].stock = s.arg]
           ELSE st
      [] s.op = "insert_customer" ->
           LET id == st.seq.customers + 1
           IN  [st EXCEPT !.customers = Put(@, id, s.arg), !.seq.customers = id]
      [] s.op = "delete_customer" ->
           [st EXCEPT !.customers = Drop(@, s.id)]
      [] OTHER -> st

\* --------------------------------------------------- Database.execute
\* Database.execute runs one statement and commits at once; when the
\* statement raises it reconnects and runs it once more, and raises if that
\* fails too.  fault is what the store does to this statement: "none", or an
\* error on the first attempt only ("transient"), or on both ("persistent").
\* A statement SQLite rejects (Accepts) is rejected on both attempts.

\* attempts counts the cursor.execute calls made for the statement.
execute(st, s, fault) ==
    IF fault # "persistent" /\ Accepts(st, s)
    THEN [ok |-> TRUE, st |-> Apply(st, s),
          attempts |-> IF fault = "none" THEN 1 ELSE 2]
    ELSE [ok |-> FALSE, st |-> st, attempts |-> 2]

\* Database.fetch_one of one settings row: one cursor.execute; an error is
\* printed and None returned, nothing is raised
fetch_one(st, key, fault) ==
    [raised |-> FALSE, attempts |-> 1,
     row |-> IF fault = "none" /\ key \in DOMAIN st.settings
             THEN << st.settings[key] >> ELSE << >>]

\* get_setting(key, default): << value >>, where << >> is None
get_setting_NoDefault(st, key, default, fault) ==
    LET row == fetch_one(st, key, fault).row
    IN  IF row # << >> THEN << row[1] >> ELSE << >>

get_setting(st, key, default, fault) ==
    LET row == fetch_one(st, key, fault).row
    IN  IF row # << >> THEN << row[1] >> ELSE default

\* set_setting(key, value): INSERT OR REPLACE through execute; an error is
\* caught and False returned
set_setting(st, key, value, fault) ==
    LET r == execute(st, Stmt("replace_setting", 0, [key |-> key, value |-> value]), fault)
    IN  [returned |-> r.ok, st |-> r.st, attempts |-> r.attempts]

\* Database.fetch_one / fetch_all swallow an error: None / [] is returned.
fetch_product(st, pid, readfails) ==
    IF readfails \/ pid \notin DOMAIN st.products
    THEN << >>
    ELSE << st.products[pid] >>

fetch_payments(st, id, readfails) ==
    IF readfails THEN {} ELSE PaymentsOf(st, id)

fetch_setting(st, readfails) ==
    IF readfails \/ NextNumberKey \notin DOMAIN st.settings
    THEN << >>
    ELSE << st.settings[NextNumberKey] >>

\* A handler is a list of steps run in order until one raises.  A step is a
\* statement for execute, or "adjust_stock": the read-then-write of the
\* invoice page (fetch_one stock, is_service; UPDATE products SET stock = ?),
\* which writes nothing for a missing row, a failed read or a service.
\* failAt is the step whose statement the store fails (0: none), readFailAt
\* the adjust_stock step whose read fails (0: none).
StockStmtAnyProduct(st, step, readfails) ==
    LET row == fetch_product(st, step.id, readfails)
    IN  IF row # << >>
        THEN << Stmt("update_stock", step.id, row[1].stock + step.arg) >>
        ELSE << >>

StockStmt(st, step, readfails) ==
    LET row == fetch_product(st, step.id, readfails)
    IN  IF row # << >> /\ ~row[1].is_service
        THEN << Stmt("update_stock", step.id, row[1].stock + step.arg) >>
        ELSE << >>

RECURSIVE RunFrom(_, _, _, _, _)
RunFrom(st, steps, i, failAt, readFailAt) ==
    IF i > Len(steps) THEN [ok |-> TRUE, st |-> st, at |-> 0, attempts |-> 0]
    ELSE LET step == steps[i]
             stmts == IF step.op = "adjust_stock"
                      THEN StockStmt(st, step, i = readFailAt)
                      ELSE << step >>
         IN  IF stmts = << >>
             THEN RunFrom(st, steps, i + 1, failAt, readFailAt)
             ELSE LET r == execute(st, stmts[1],
                                   IF i = failAt THEN "persistent" ELSE "none")
                  IN  IF r.ok
                      THEN RunFrom(r.st, steps, i + 1, failAt, readFailAt)
                      ELSE [ok |-> FALSE, st |-> r.st, at |-> i,
                            attempts |-> r.attempts]

Run(st, steps, failAt, readFailAt) == RunFrom(st, steps, 1, failAt, readFailAt)

\* ------------------------------------------------------- Invoice.save
DefaultNumber == << "1", "0", "0", "1" >>

_generate_invoice_number(st, readfails) ==
    LET row == fetch_setting(st, readfails)
    IN  IF row # << >> THEN row[1] ELSE DefaultNumber

\* a save that trusts the totals the caller left on the invoice
PrepareSaveTrusting(inv, st) ==
    IF inv.id = 0 /\ inv.invoice_number = << >>
    THEN [inv EXCEPT !.invoice_number = _generate_invoice_number(st, FALSE)]
    ELSE inv

\* calculate_totals, then the number of a new invoice that has none
PrepareSave(inv, st) ==
    LET c == calculate_totals(inv)
    IN  IF c.id = 0 /\ c.invoice_number = << >>
        THEN [c EXCEPT !.invoice_number = _generate_invoice_number(st, FALSE)]
        ELSE c

\* a save that wrote the number it was given into the setting, whatever it is
NextNumberStmtsAlways(number) ==
    << Stmt("update_setting", 0, number) >>

\* "Update next invoice number": int(invoice_number) + 1 as a string, and
\* nothing when int() raises ValueError
NextNumberStmts(number) ==
    IF IsNumeric(number)
    THEN << Stmt("update_setting", 0, ToStr(ParseInt(number) + 1)) >>
    ELSE << >>

ItemInserts(id, items) ==
    [i \in 1..Len(items) |-> Stmt("insert_item", id, items[i])]

\* a save whose update path does not delete the rows it replaces
SaveStepsKeepingItems(inv, st) ==
    IF inv.id = 0
    THEN << Stmt("insert_invoice", 0, inv) >>
         \o ItemInserts(st.seq.invoices + 1, inv.items)
         \o NextNumberStmts(inv.invoice_number)
    ELSE << Stmt("update_invoice", inv.id, inv) >>
         \o ItemInserts(inv.id, inv.items)

\* the statements Invoice.save executes for a prepared invoice, in order
SaveSteps(inv, st) ==
    IF inv.id = 0
    THEN << Stmt("insert_invoice", 0, inv) >>
         \o ItemInserts(st.seq.invoices + 1, inv.items)
         \o NextNumberStmts(inv.invoice_number)
    ELSE << Stmt("update_invoice", inv.id, inv), Stmt("delete_items", inv.id, 0) >>
         \o ItemInserts(inv.id, inv.items)

\* the object after the steps ran: self.id is the header's lastrowid as soon
\* as the header insert returned
AfterSave(inv, st, r) ==
    IF inv.id = 0 /\ (r.ok \/ r.at > 1)
    THEN [inv EXCEPT !.id = st.seq.invoices + 1]
    ELSE inv

\* ------------------------------------------------- payments of an Invoice
RECURSIVE SeqOfRows(_)
SeqOfRows(rows) ==
    IF rows = {} THEN << >>
    ELSE LET r == CHOOSE x \in rows : \A y \in rows : x.id <= y.id
         IN  << [id |-> r.id, amount |-> r.amount] >> \o SeqOfRows(rows \ {r})

RECURSIVE SumAmounts(_)
SumAmounts(ps) ==
    IF ps = << >> THEN Zero ELSE RAdd(SumAmounts(Tail(ps)), Head(ps).amount)

\* Invoice.get_payments: the list held by the object, read from the store
\* only while that list is empty and the invoice has an id
get_payments(inv, st) ==
    IF inv.payments = << >> /\ inv.id # 0
    THEN SeqOfRows(fetch_payments(st, inv.id, FALSE))
    ELSE inv.payments

\* the status add_payment sets from the sum it computed
PaymentStatus(total_paid, total) ==
    IF RLe(total, total_paid) THEN "paid" ELSE "partial"

get_payment_summary(inv, st) ==
    LET ps == get_payments(inv, st)
        total_paid == SumAmounts(ps)
        balance == RSub(inv.total, total_paid)
    IN  [total |-> inv.total, paid |-> total_paid, balance |-> balance,
         is_fully_paid |-> RLe(balance, Zero), payments |-> ps]

\* ------------------------------------------------------------------ state
VARIABLES
    db,               \* the SQLite file (committed rows)
    current_invoice,  \* InvoicesPage.current_invoice: << >> (None) or << Invoice >>
    invoice_items,    \* InvoicesPage.invoice_items, the list current_invoice.items aliases
    form,             \* InvoicesPage form variables
    obj,              \* an Invoice held by a caller of the core: << >> or << Invoice >>
    last,             \* the operation that ran last and how it ended
    faults            \* how many statements the store has failed so far

vars == << db, current_invoice, invoice_items, form, obj, last, faults >>

Done(op, ok, out) == [op |-> op, ok |-> ok, out |-> out]

\* init_db seeds next_invoice_number = '1001' with INSERT OR IGNORE; an error
\* there is caught, init_db returns False and main() carries on.
SeedNumber == DefaultNumber

Init ==
    /\ \E fault \in {"none", "persistent"} :
          db = execute(EmptyStore, Stmt("insert_setting", 0, SeedNumber), fault).st
    /\ current_invoice = << >>
    /\ invoice_items = << >>
    /\ form = [invoice_num_var |-> << >>, discount_type |-> "percentage",
               discount_value |-> Zero, tax_rate_var |-> FromInt(18)]
    /\ obj = << >>
    /\ last = Done("init", TRUE, << >>)
    /\ faults = 0

\* ----------------------------------------------- inputs of the core's callers
CoreNumbers == {<< >>, << "A" >>, << "0", "7" >>}
CoreItems == << InvoiceItem(0, 2, FromInt(50)) >>
Amounts == {FromInt(0), FromInt(40), FromInt(60)}
PayNumbers == {<< >>}
TaxRates == {FromInt(0)}

\* the store may fail one more statement; r is what Run returned for failAt
MayFail(failAt) == failAt # 0 => faults < MaxFaults
Faulted(r, failAt) == IF ~r.ok /\ r.at = failAt THEN faults + 1 ELSE faults

RoomFor(inv) ==
    /\ inv.id = 0 => db.seq.invoices < MaxInvoices
    /\ db.seq.invoice_items + Len(inv.items) <= MaxItemRows

\* ------------------------------------------------------ the core, by a caller
\* Invoice(invoice_number=..., tax_rate=..., items=[...])
ObjNew(number, tax) ==
    /\ obj' = << [Invoice EXCEPT !.invoice_number = number, !.tax_rate = tax,
                                 !.items = CoreItems] >>
    /\ last' = Done("Invoice", TRUE, << >>)
    /\ UNCHANGED << db, current_invoice, invoice_items, form, faults >>

\* the row of Invoice.get_by_id as an object; its payments list starts empty
Loaded(st, id) ==
    LET row == st.invoices[id]
    IN  [Invoice EXCEPT
            !.id = id, !.invoice_number = row.invoice_number,
            !.customer_id = row.customer_id,
            !.status = row.status, !.subtotal = row.subtotal,
            !.discount_amount = row.discount_amount,
            !.discount_percentage = row.discount_percentage,
            !.discounted_subtotal = IF row.discounted_subtotal = Zero
                                    THEN row.subtotal
                                    ELSE row.discounted_subtotal,
            !.tax_rate = row.tax_rate, !.tax_amount = row.tax_amount,
            !.total = row.total,
            !.items = [i \in 1..Cardinality(ItemsOf(st, id)) |->
                         LET r == CHOOSE x \in ItemsOf(st, id) :
                                     Cardinality({y \in ItemsOf(st, id) : y.id < x.id}) = i - 1
                         IN  [product_id |-> r.product_id, quantity |-> r.quantity,
                              unit_price |-> r.unit_price, total |-> r.total]]]

ObjGetById(id) ==
    /\ id \in DOMAIN db.invoices
    /\ obj' = << Loaded(db, id) >>
    /\ last' = Done("get_by_id", TRUE, << >>)
    /\ UNCHANGED << db, current_invoice, invoice_items, form, faults >>

\* invoice.status = 'cancelled': the caller's explicit cancellation, persisted
\* by the save that follows
ObjCancel ==
    /\ obj # << >>
    /\ obj[1].status # "cancelled"
    /\ obj' = << [obj[1] EXCEPT !.status = "cancelled"] >>
    /\ last' = Done("cancel", TRUE, << >>)
    /\ UNCHANGED << db, current_invoice, invoice_items, form, faults >>

\* Invoice.save(); last.out is the id and the number the invoice had before,
\* and, when save raised, how often the statement that raised was attempted
ObjSave(failAt) ==
    /\ obj # << >>
    /\ RoomFor(obj[1])
    /\ MayFail(failAt)
    /\ LET inv == PrepareSave(obj[1], db)
           r == Run(db, SaveSteps(inv, db), failAt, 0)
       IN  /\ db' = r.st
           /\ obj' = << AfterSave(inv, db, r) >>
           /\ last' = Done("save", r.ok,
                           << obj[1].id, obj[1].invoice_number >>
                           \o (IF r.ok THEN << >> ELSE << r.attempts >>))
           /\ faults' = Faulted(r, failAt)
    /\ UNCHANGED << current_invoice, invoice_items, form >>

\* Invoice.add_payment(amount): its statements are the payment insert and the
\* status update; the status is set on the object before it is written
ObjAddPayment(amount, failAt) ==
    /\ obj # << >>
    /\ db.seq.payments < MaxPayments
    /\ MayFail(failAt)
    /\ LET inv == obj[1]
           r1 == Run(db, << Stmt("insert_payment", inv.id, amount) >>, failAt, 0)
           payment == [id |-> db.seq.payments + 1, amount |-> amount]
           cached == get_payments(inv, r1.st)
           status == PaymentStatus(SumAmounts(cached), inv.total)
           r2 == Run(r1.st, << Stmt("update_status", inv.id, status) >>, failAt - 1, 0)
       IN  IF ~r1.ok
           THEN /\ db' = r1.st
                /\ obj' = obj
                /\ last' = Done("add_payment", FALSE, << >>)
                /\ faults' = Faulted(r1, failAt)
           ELSE /\ db' = r2.st
                /\ faults' = Faulted(r2, failAt - 1)
                /\ obj' = << [inv EXCEPT
                                !.status = status,
                                !.payments = IF r2.ok THEN Append(cached, payment)
                                             ELSE cached] >>
                /\ last' = Done("add_payment", r2.ok, << inv.status >>)
    /\ UNCHANGED << current_invoice, invoice_items, form >>

\* a mark_as_paid that only recorded the payment
MarkAsPaidStepsPaymentOnly(inv) ==
    << Stmt("insert_payment", inv.id, inv.total) >>

\* the statements of Invoice.mark_as_paid and of the page's record_payment:
\* the status first, then one payment of the invoice's total
MarkAsPaidSteps(inv) ==
    << Stmt("update_status", inv.id, "paid"),
       Stmt("insert_payment", inv.id, inv.total) >>

\* Invoice.mark_as_paid(); last.out is how many payments the invoice had
ObjMarkAsPaid(failAt) ==
    /\ obj # << >>
    /\ db.seq.payments < MaxPayments
    /\ MayFail(failAt)
    /\ LET inv == obj[1]
           r == Run(db, MarkAsPaidSteps(inv), failAt, 0)
       IN  /\ db' = r.st
           /\ obj' = << [inv EXCEPT !.status = "paid"] >>
           /\ last' = Done("mark_as_paid", r.ok,
                           << Cardinality(PaymentsOf(db, inv.id)) >>)
           /\ faults' = Faulted(r, failAt)
    /\ UNCHANGED << current_invoice, invoice_items, form >>

\* Invoice.get_payment_summary(): get_payments keeps what it read
ObjGetPaymentSummary ==
    /\ obj # << >>
    /\ obj' = << [obj[1] EXCEPT !.payments = get_payments(obj[1], db)] >>
    /\ last' = Done("get_payment_summary", TRUE, << get_payment_summary(obj[1], db) >>)
    /\ UNCHANGED << db, current_invoice, invoice_items, form, faults >>

\* ------------------------------------------- calculate_totals, by a caller
TotalsItems ==
    { << >>,
      << InvoiceItem(0, 2, FromInt(50)) >>,
      << InvoiceItem(0, 2, FromInt(50)), InvoiceItem(0, 1, FromInt(30)) >> }
DiscountAmounts == {FromInt(0), FromInt(40), FromInt(200)}
DiscountPercentages == {FromInt(0), FromInt(10), FromInt(150)}
TotalsTaxRates == {FromInt(0), FromInt(18)}

\* Invoice(items=..., discount_amount=..., discount_percentage=..., tax_rate=...)
ObjNewWith(items, amount, percentage, tax) ==
    /\ obj' = << [Invoice EXCEPT !.items = items, !.discount_amount = amount,
                                 !.discount_percentage = percentage,
                                 !.tax_rate = tax] >>
    /\ last' = Done("Invoice", TRUE, << >>)
    /\ UNCHANGED << db, current_invoice, invoice_items, form, faults >>

\* invoice.items = [...]: the caller replaces the item list and leaves the
\* totals the invoice carried
ObjSetItems(items) ==
    /\ obj # << >>
    /\ obj[1].items # items
    /\ obj' = << [obj[1] EXCEPT !.items = items] >>
    /\ last' = Done("set_items", TRUE, << >>)
    /\ UNCHANGED << db, current_invoice, invoice_items, form, faults >>

\* invoice.calculate_totals(); last.out is the object it was called on
ObjCalculateTotals ==
    /\ obj # << >>
    /\ obj' = << calculate_totals(obj[1]) >>
    /\ last' = Done("calculate_totals", TRUE, << obj[1] >>)
    /\ UNCHANGED << db, current_invoice, invoice_items, form, faults >>

\* ---------------------------------------------------- the products page
InitialStock == 10
Stocks == {InitialStock}
Prices == {FromInt(50)}

\* save_product: Product(...).save() of a new product; the dialog holds the
\* stock of a service at 0
AddProduct(stock, price, is_service) ==
    /\ db.seq.products < MaxProducts
    /\ LET r == Run(db, << Stmt("insert_product", 0,
                         [stock |-> IF is_service THEN 0 ELSE stock,
                          price |-> price,
                          is_service |-> is_service]) >>, 0, 0)
       IN  /\ db' = r.st
           /\ last' = Done("save_product", r.ok, << >>)
    /\ UNCHANGED << current_invoice, invoice_items, form, obj, faults >>

\* Product.get_by_id(pid).update_stock(quantity_change); stock is received
\* only while it is below InitialStock, to bound the model
StockChanges == {5}

update_stock(pid, quantity_change) ==
    /\ pid \in DOMAIN db.products
    /\ LET product == db.products[pid]
           new_stock == product.stock + quantity_change
       IN  /\ product.stock < InitialStock \/ product.is_service
           /\ IF ~product.is_service
              THEN LET r == Run(db, << Stmt("update_stock", pid, new_stock) >>, 0, 0)
                   IN  db' = r.st
              ELSE db' = db
    /\ last' = Done("update_stock", TRUE, << pid >>)
    /\ UNCHANGED << current_invoice, invoice_items, form, obj, faults >>

\* delete_selected_product: the pre-check counts the invoice_items rows of the
\* product (a failed read gives None, which passes the check), the user
\* confirms, then Product.get_by_id(product_id).delete() is called.  Product
\* defines no delete method: the call raises AttributeError, the handler's
\* except branch reports it, and no statement reaches the store.
ProductReferences(st, pid) == {r \in st.invoice_items : r.product_id = pid}

delete_selected_product(pid, confirmed, readfails) ==
    /\ pid \in DOMAIN db.products
    /\ LET row == IF readfails THEN << >>
                  ELSE << Cardinality(ProductReferences(db, pid)) >>
           rejected == row # << >> /\ row[1] > 0
           product == fetch_product(db, pid, FALSE)
           raised == ~rejected /\ confirmed /\ product # << >>
       IN  /\ db' = db
           /\ last' = Done("delete_selected_product", ~raised,
                           << pid, rejected, confirmed >>)
    /\ UNCHANGED << current_invoice, invoice_items, form, obj, faults >>

\* ----------------------------------------------------- the invoice page
Quantities == {3}
UINumbers == {<< "A" >>}

\* clear_form resets the number and the tax rate; the discount fields keep
\* what they held
ClearedForm(f) ==
    [f EXCEPT !.invoice_num_var = << >>, !.tax_rate_var = FromInt(18)]

new_invoice ==
    /\ current_invoice' = << >>
    /\ invoice_items' = << >>
    /\ LET row == fetch_setting(db, FALSE)
       IN  form' = [ClearedForm(form) EXCEPT
                      !.invoice_num_var = IF row # << >> THEN row[1] ELSE << >>]
    /\ last' = Done("new_invoice", TRUE, << >>)
    /\ UNCHANGED << db, obj, faults >>

\* load_invoice_data builds the Invoice from the header without its discount
\* columns (they keep the dataclass defaults) and the items without their ids
load_invoice_data(id) ==
    /\ id \in DOMAIN db.invoices
    /\ LET l == Loaded(db, id)
           inv == [l EXCEPT !.discount_amount = Zero,
                            !.discount_percentage = Zero,
                            !.discounted_subtotal = Zero]
       IN  /\ current_invoice' = << inv >>
           /\ invoice_items' = inv.items
           /\ form' = [form EXCEPT !.invoice_num_var = inv.invoice_number,
                                   !.tax_rate_var = inv.tax_rate,
                                   !.discount_value = Zero]
    /\ last' = Done("load_invoice_data", TRUE, << >>)
    /\ UNCHANGED << db, obj, faults >>

\* the invoice-number entry, typed by the user
type_invoice_number(number) ==
    /\ form.invoice_num_var # number
    /\ form' = [form EXCEPT !.invoice_num_var = number]
    /\ last' = Done("type_invoice_number", TRUE, << >>)
    /\ UNCHANGED << db, current_invoice, invoice_items, obj, faults >>

\* the discount type combobox and the discount spinbox, set by the user
FormDiscounts == {<< "percentage", 10 >>, << "amount", 40 >>}

type_discount(type, value) ==
    /\ form.discount_type # type \/ form.discount_value # FromInt(value)
    /\ form' = [form EXCEPT !.discount_type = type, !.discount_value = FromInt(value)]
    /\ last' = Done("type_discount", TRUE, << >>)
    /\ UNCHANGED << db, current_invoice, invoice_items, obj, faults >>

\* self.invoice_items and current_invoice.items are one list
WithItems(cur, items) ==
    IF cur = << >> THEN cur ELSE << [cur[1] EXCEPT !.items = items] >>

add_item_from_dialog(pid, quantity) ==
    /\ pid \in DOMAIN db.products
    /\ Len(invoice_items) < MaxItems
    /\ LET item == calculate_total(InvoiceItem(pid, quantity, db.products[pid].price))
       IN  /\ invoice_items' = Append(invoice_items, item)
           /\ current_invoice' = WithItems(current_invoice, Append(invoice_items, item))
    /\ last' = Done("add_item", TRUE, << >>)
    /\ UNCHANGED << db, form, obj, faults >>

remove_selected_item(idx) ==
    /\ idx \in 1..Len(invoice_items)
    /\ LET items == SubSeq(invoice_items, 1, idx - 1)
                    \o SubSeq(invoice_items, idx + 1, Len(invoice_items))
       IN  /\ invoice_items' = items
           /\ current_invoice' = WithItems(current_invoice, items)
    /\ last' = Done("remove_item", TRUE, << >>)
    /\ UNCHANGED << db, form, obj, faults >>

\* "Set discount values" of save_invoice: [amount, percentage]
FormDiscount(subtotal, type, value) ==
    IF type = "percentage"
    THEN [amount |-> RMul(subtotal, RDiv(value, Hundred)), percentage |-> value]
    ELSE LET a == RMin(value, subtotal)
         IN  [amount |-> a,
              percentage |-> IF RLt(Zero, subtotal)
                             THEN RMul(RDiv(a, subtotal), Hundred)
                             ELSE Zero]

\* the stock loops of save_invoice (sign -1) and delete_invoice (sign +1):
\* one read-then-write per item that has a product_id
RECURSIVE StockSteps(_, _)
StockSteps(items, sign) ==
    IF items = << >> THEN << >>
    ELSE (IF Head(items).product_id # 0
          THEN << Stmt("adjust_stock", Head(items).product_id,
                       sign * Head(items).quantity) >>
          ELSE << >>)
         \o StockSteps(Tail(items), sign)

\* connection.rollback() in the except branch: execute has committed every
\* statement that ran, so there is nothing left to undo
rollback(committed) == committed

\* the Invoice that save_invoice hands to Invoice.save
FormInvoice ==
    LET base == IF current_invoice # << >> THEN current_invoice[1] ELSE Invoice
        subtotal == SumTotals(invoice_items)
        d == FormDiscount(subtotal, form.discount_type, form.discount_value)
    IN  [base EXCEPT !.invoice_number = form.invoice_num_var,
                     !.tax_rate = form.tax_rate_var,
                     !.items = invoice_items,
                     !.discount_percentage = d.percentage,
                     !.discount_amount = d.amount,
                     !.discounted_subtotal = RSub(subtotal, d.amount)]

save_invoice(failAt) ==
    /\ form.invoice_num_var # << >>
    /\ invoice_items # << >>
    /\ RoomFor(FormInvoice)
    /\ MayFail(failAt)
    /\ LET inv == PrepareSave(FormInvoice, db)
           steps == SaveSteps(inv, db) \o StockSteps(invoice_items, -1)
           r == Run(db, steps, failAt, 0)
       IN  /\ faults' = Faulted(r, failAt)
           /\ IF r.ok
              THEN /\ db' = r.st
                   /\ current_invoice' = << >>
                   /\ invoice_items' = << >>
                   /\ form' = ClearedForm(form)
                   /\ last' = Done("save_invoice", TRUE, << >>)
              ELSE /\ db' = rollback(r.st)
                   /\ current_invoice' = IF current_invoice = << >> THEN << >>
                                         ELSE << AfterSave(inv, db, r) >>
                   /\ invoice_items' = inv.items
                   /\ form' = form
                   /\ last' = Done("save_invoice", FALSE, << >>)
    /\ UNCHANGED obj

delete_invoice(failAt) ==
    /\ current_invoice # << >>
    /\ MayFail(failAt)
    /\ LET id == current_invoice[1].id
           steps == StockSteps(current_invoice[1].items, 1)
                    \o << Stmt("delete_items", id, 0), Stmt("delete_invoice", id, 0) >>
           r == Run(db, steps, failAt, 0)
       IN  /\ faults' = Faulted(r, failAt)
           /\ IF r.ok
              THEN /\ db' = r.st
                   /\ current_invoice' = << >>
                   /\ invoice_items' = << >>
                   /\ form' = ClearedForm(form)
                   /\ last' = Done("delete_invoice", TRUE, << >>)
              ELSE /\ db' = rollback(r.st)
                   /\ UNCHANGED << current_invoice, invoice_items, form >>
                   /\ last' = Done("delete_invoice", FALSE, << >>)
    /\ UNCHANGED obj

\* mark_as_paid and its record_payment: only for an invoice the page holds
\* as 'pending'
record_payment(failAt) ==
    /\ current_invoice # << >>
    /\ current_invoice[1].status = "pending"
    /\ db.seq.payments < MaxPayments
    /\ MayFail(failAt)
    /\ LET inv == current_invoice[1]
           r == Run(db, MarkAsPaidSteps(inv), failAt, 0)
       IN  /\ faults' = Faulted(r, failAt)
           /\ IF r.ok
              THEN /\ db' = r.st
                   /\ current_invoice' = << [inv EXCEPT !.status = "paid"] >>
                   /\ last' = Done("record_payment", TRUE, << >>)
              ELSE /\ db' = rollback(r.st)
                   /\ current_invoice' = current_invoice
                   /\ last' = Done("record_payment", FALSE, << >>)
    /\ UNCHANGED << invoice_items, form, obj >>

\* ------------------------------------------------------- specifications
\* Spec: the products page and the invoice page, with a store that may fail
\* any statement.
Next ==
    \/ \E stock \in Stocks, price \in Prices, is_service \in BOOLEAN :
          AddProduct(stock, price, is_service)
    \/ new_invoice
    \/ \E id \in 1..MaxInvoices : load_invoice_data(id)
    \/ \E number \in UINumbers : type_invoice_number(number)
    \/ \E pid \in 1..MaxProducts, quantity \in Quantities :
          add_item_from_dialog(pid, quantity)
    \/ \E idx \in 1..MaxItems : remove_selected_item(idx)
    \/ \E failAt \in 0..(2 * MaxItems + 2) : save_invoice(failAt)
    \/ \E failAt \in 0..(MaxItems + 2) : delete_invoice(failAt)

Spec == Init /\ [][Next]_vars

\* SpecNum: a caller of the core that creates, reloads and saves invoices
\* under every kind of number.
NextNum ==
    \/ \E number \in CoreNumbers, tax \in TaxRates : ObjNew(number, tax)
    \/ \E id \in 1..MaxInvoices : ObjGetById(id)
    \/ \E failAt \in 0..(MaxItems + 2) : ObjSave(failAt)

SpecNum == Init /\ [][NextNum]_vars

\* SpecPay: a caller of the core that takes payments on saved invoices, over
\* a store that fails no statement.
NextPay ==
    \/ \E number \in PayNumbers, tax \in TaxRates : ObjNew(number, tax)
    \/ \E id \in 1..MaxInvoices : ObjGetById(id)
    \/ ObjCancel
    \/ ObjSave(0)
    \/ \E amount \in Amounts : ObjAddPayment(amount, 0)
    \/ ObjMarkAsPaid(0)
    \/ ObjGetPaymentSummary

SpecPay == Init /\ [][NextPay]_vars

\* SpecMark: invoices marked as paid, by a caller of the core and on the
\* invoice page.
NextMark ==
    \/ \E number \in PayNumbers, tax \in TaxRates : ObjNew(number, tax)
    \/ ObjSave(0)
    \/ \E failAt \in 0..2 : ObjMarkAsPaid(failAt)
    \/ ObjGetPaymentSummary
    \/ \E id \in 1..MaxInvoices : load_invoice_data(id)
    \/ \E failAt \in 0..2 : record_payment(failAt)

SpecMark == Init /\ [][NextMark]_vars

\* SpecTotals: a caller that builds invoices and computes their totals.
NextTotals ==
    \/ \E items \in TotalsItems, amount \in DiscountAmounts,
          percentage \in DiscountPercentages, tax \in TotalsTaxRates :
          ObjNewWith(items, amount, percentage, tax)
    \/ ObjCalculateTotals

SpecTotals == Init /\ [][NextTotals]_vars

\* ------------------------------------------------------- customers
\* Customer(name=..., email=..., phone=...) as the caller fills it
CustomerInputs ==
    {[name |-> << "A", "b" >>, email |-> << "b", "7" >>, phone |-> << >>],
     [name |-> << "b" >>, email |-> << >>, phone |-> << "7" >>]}

Queries == {<< "a" >>, << "B", "7" >>}

\* Customer(...).save() of a new customer
AddCustomer(c) ==
    /\ db.seq.customers < MaxCustomers
    /\ LET r == Run(db, << Stmt("insert_customer", 0, c) >>, 0, 0)
       IN  /\ db' = r.st
           /\ last' = Done("save_customer", r.ok, << >>)
    /\ UNCHANGED << current_invoice, invoice_items, form, obj, faults >>

\* Invoice(customer_id=..., items=[...])
ObjNewFor(customer_id) ==
    /\ obj' = << [Invoice EXCEPT !.customer_id = customer_id, !.items = CoreItems] >>
    /\ last' = Done("Invoice", TRUE, << >>)
    /\ UNCHANGED << db, current_invoice, invoice_items, form, faults >>

\* delete_customer of the customers page on the selected customer: the user
\* confirms; when the customer has invoices the user is warned and may stop;
\* then Customer.delete() runs DELETE FROM customers WHERE id=?
InvoicesOfCustomer(st, cid) ==
    {i \in DOMAIN st.invoices : st.invoices[i].customer_id = cid}

delete_customer(cid, confirmed, anyway, failAt) ==
    /\ cid \in DOMAIN db.customers
    /\ MayFail(failAt)
    /\ LET warned == InvoicesOfCustomer(db, cid) # {}
           goes == confirmed /\ (warned => anyway)
           r == IF goes THEN Run(db, << Stmt("delete_customer", cid, 0) >>, failAt, 0)
                ELSE [ok |-> TRUE, st |-> db, at |-> 0, attempts |-> 0]
       IN  /\ db' = r.st
           /\ faults' = Faulted(r, failAt)
           /\ last' = Done("delete_customer", r.ok, << cid, goes >>)
    /\ UNCHANGED << current_invoice, invoice_items, form, obj >>

\* Database.fetch_all: the rows of the statement, or [] when it raises
fetch_all(prepares, rows, readfails) ==
    IF prepares /\ ~readfails THEN rows ELSE {}

\* The statement text of Customer.search is two SELECTs run together
\* ("SELECT * FROM customers SELECT * FROM invoice.customer = customers
\* WHERE ..."): SQLite raises OperationalError (near "SELECT": syntax error)
\* when it prepares it, whatever the parameters.
SearchStatementPrepares == FALSE

\* Customer.search(query): the ids of the customers it returns
search(st, query) ==
    fetch_all(SearchStatementPrepares, DOMAIN st.customers, FALSE)

CustomerSearch(query) ==
    /\ last' = Done("search", TRUE, << query, search(db, query) >>)
    /\ UNCHANGED << db, current_invoice, invoice_items, form, obj, faults >>

\* SpecCustomers: the customers page adding, searching and deleting
\* customers while a caller of the core saves invoices for them.
NextCustomers ==
    \/ \E c \in CustomerInputs : AddCustomer(c)
    \/ \E cid \in 0..MaxCustomers : ObjNewFor(cid)
    \/ ObjSave(0)
    \/ \E cid \in 1..MaxCustomers, confirmed \in BOOLEAN, anyway \in BOOLEAN,
          failAt \in 0..1 : delete_customer(cid, confirmed, anyway, failAt)
    \/ \E query \in Queries : CustomerSearch(query)

SpecCustomers == Init /\ [][NextCustomers]_vars

\* ------------------------------------------------- the store, by a caller
SettingKeys == {NextNumberKey, "company_name"}
SettingValues == {<< "7" >>, << "A" >>}
\* the default a caller passes: None or a string
Defaults == {<< >>, << << "d" >> >>}
StoreFaults == {"none", "transient", "persistent"}

StoreMayFail(fault) == fault # "none" => faults < MaxFaults
StoreFaulted(fault) == IF fault # "none" THEN faults + 1 ELSE faults

\* db.fetch_one('SELECT value FROM settings WHERE key = ?', (key,))
DbFetchOne(key, fault) ==
    /\ StoreMayFail(fault)
    /\ LET r == fetch_one(db, key, fault)
       IN  last' = Done("fetch_one", ~r.raised, << fault, r.attempts, r.row, key >>)
    /\ faults' = StoreFaulted(fault)
    /\ UNCHANGED << db, current_invoice, invoice_items, form, obj >>

\* db.execute('INSERT OR REPLACE INTO settings ...', (key, value))
DbExecute(key, value, fault) ==
    /\ StoreMayFail(fault)
    /\ LET r == execute(db, Stmt("replace_setting", 0, [key |-> key, value |-> value]),
                        fault)
       IN  /\ db' = r.st
           /\ last' = Done("execute", r.ok, << fault, r.attempts >>)
    /\ faults' = StoreFaulted(fault)
    /\ UNCHANGED << current_invoice, invoice_items, form, obj >>

GetSetting(key, default, fault) ==
    /\ StoreMayFail(fault)
    /\ last' = Done("get_setting", TRUE,
                    << fault, key, default, get_setting(db, key, default, fault) >>)
    /\ faults' = StoreFaulted(fault)
    /\ UNCHANGED << db, current_invoice, invoice_items, form, obj >>

SetSetting(key, value, fault) ==
    /\ StoreMayFail(fault)
    /\ LET r == set_setting(db, key, value, fault)
       IN  /\ db' = r.st
           /\ last' = Done("set_setting", TRUE, << fault, key, value, r.returned >>)
    /\ faults' = StoreFaulted(fault)
    /\ UNCHANGED << current_invoice, invoice_items, form, obj >>

\* SpecStore: a caller of the store layer reading and writing settings over
\* a store that may fail a statement once or on both attempts.
NextStore ==
    \/ \E key \in SettingKeys, fault \in StoreFaults : DbFetchOne(key, fault)
    \/ \E key \in SettingKeys, value \in SettingValues, fault \in StoreFaults :
          DbExecute(key, value, fault)
    \/ \E key \in SettingKeys, default \in Defaults, fault \in StoreFaults :
          GetSetting(key, default, fault)
    \/ \E key \in SettingKeys, value \in SettingValues, fault \in StoreFaults :
          SetSetting(key, value, fault)

SpecStore == Init /\ [][NextStore]_vars

\* SpecProducts: the products page adding and deleting products while the
\* invoice page creates and deletes the invoices that refer to them.
NextProducts ==
    \/ \E stock \in Stocks, price \in Prices, is_service \in BOOLEAN :
          AddProduct(stock, price, is_service)
    \/ \E pid \in 1..MaxProducts, confirmed \in BOOLEAN, readfails \in BOOLEAN :
          delete_selected_product(pid, confirmed, readfails)
    \/ \E id \in 1..MaxInvoices : load_invoice_data(id)
    \/ \E number \in UINumbers : type_invoice_number(number)
    \/ \E pid \in 1..MaxProducts, quantity \in Quantities :
          add_item_from_dialog(pid, quantity)
    \/ save_invoice(0)
    \/ delete_invoice(0)

SpecProducts == Init /\ [][NextProducts]_vars

\* SpecLedger: a caller of the core that saves invoices and takes payments
\* on them, while the invoice page loads and deletes invoices.
LedgerAmounts == {FromInt(40)}

NextLedger ==
    \/ \E number \in PayNumbers, tax \in TaxRates : ObjNew(number, tax)
    \/ ObjSave(0)
    \/ \E amount \in LedgerAmounts : ObjAddPayment(amount, 0)
    \/ ObjMarkAsPaid(0)
    \/ \E id \in 1..MaxInvoices : load_invoice_data(id)
    \/ delete_invoice(0)

SpecLedger == Init /\ [][NextLedger]_vars

\* SpecReload: the invoice page creating invoices with a discount, loading
\* them back into the form and saving them again.
NextReload ==
    \/ \E stock \in Stocks, price \in Prices, is_service \in BOOLEAN :
          AddProduct(stock, price, is_service)
    \/ \E number \in UINumbers : type_invoice_number(number)
    \/ \E d \in FormDiscounts : type_discount(d[1], d[2])
    \/ \E pid \in 1..MaxProducts, quantity \in Quantities :
          add_item_from_dialog(pid, quantity)
    \/ \E id \in 1..MaxInvoices : load_invoice_data(id)
    \/ save_invoice(0)

SpecReload == Init /\ [][NextReload]_vars

\* SpecStock: the products page, Product.update_stock and the invoice page
\* creating, reloading, saving and deleting invoices.
NextStock ==
    \/ \E stock \in Stocks, price \in Prices, is_service \in BOOLEAN :
          AddProduct(stock, price, is_service)
    \/ \E pid \in 1..MaxProducts, quantity_change \in StockChanges :
          update_stock(pid, quantity_change)
    \/ \E id \in 1..MaxInvoices : load_invoice_data(id)
    \/ \E number \in UINumbers : type_invoice_number(number)
    \/ \E pid \in 1..MaxProducts, quantity \in Quantities :
          add_item_from_dialog(pid, quantity)
    \/ save_invoice(0)
    \/ delete_invoice(0)

SpecStock == Init /\ [][NextStock]_vars

\* SpecSave: a caller of the core that builds invoices with items, discount
\* and tax, changes their items, reloads and saves them.
SaveDiscounts == {<<200, 0>>, <<0, 10>>}

SaveTaxRates == {18}

SaveItems == TotalsItems \ {<< >>}

NextSave ==
    \/ \E items \in SaveItems, discount \in SaveDiscounts, tax \in SaveTaxRates :
          ObjNewWith(items, FromInt(discount[1]), FromInt(discount[2]),
                     FromInt(tax))
    \/ \E items \in SaveItems : ObjSetItems(items)
    \/ \E id \in 1..MaxInvoices : ObjGetById(id)
    \/ \E failAt \in 0..(MaxItems + 2) : ObjSave(failAt)

SpecSave == Init /\ [][NextSave]_vars

\* ------------------------------------------------------------- properties
\* what the store holds for an invoice
PaidInStore(st, id) == SumAmounts(SeqOfRows(PaymentsOf(st, id)))
StatusInStore(st, id) == st.invoices[id].status

RECURSIVE SumQuantities(_)
SumQuantities(rows) ==
    IF rows = {} THEN 0
    ELSE LET r == CHOOSE x \in rows : TRUE
         IN  r.quantity + SumQuantities(rows \ {r})

\* every product's stock is its initial stock less the quantities of the
\* persisted items that reference it
StockMatchesItems(st) ==
    \A pid \in DOMAIN st.products :
        ~st.products[pid].is_service =>
            st.products[pid].stock =
                InitialStock - SumQuantities({r \in st.invoice_items : r.product_id = pid})

\* C1: when the invoice-save workflow fails, the invoices rows, the
\* invoice_items rows, the product stocks and the settings are exactly what
\* they were before the call.
SaveInvoiceIsAtomic ==
    [][(last'.op = "save_invoice" /\ ~last'.ok) =>
          /\ db'.invoices = db.invoices
          /\ db'.invoice_items = db.invoice_items
          /\ db'.products = db.products
          /\ db'.settings = db.settings]_vars

\* C2: after an add_payment that returned, the status in memory and in the
\* store is 'paid' when the payments recorded for the invoice sum to at least
\* its total, and 'partial' when they sum to more than 0 and less than it.
AddPaymentSetsStatusFromSum ==
    [][(last'.op = "add_payment" /\ last'.ok) =>
          LET id == obj[1].id
              paid == PaidInStore(db', id)
              total == obj[1].total
          IN  /\ RLe(total, paid) =>
                    obj'[1].status = "paid" /\ StatusInStore(db', id) = "paid"
              /\ (RLt(Zero, paid) /\ RLt(paid, total)) =>
                    obj'[1].status = "partial" /\ StatusInStore(db', id) = "partial"]_vars

\* C3: get_payment_summary returns paid = the sum of the payments recorded for
\* the invoice, each counted once, balance = total - paid and
\* is_fully_paid = (balance <= 0).
SummaryCountsEachPaymentOnce ==
    (last.op = "get_payment_summary" /\ obj[1].id # 0) =>
        LET out == last.out[1]
        IN  /\ out.paid = PaidInStore(db, obj[1].id)
            /\ out.balance = RSub(obj[1].total, out.paid)
            /\ out.is_fully_paid = RLe(out.balance, Zero)

\* the operations C4 is about: a new invoice saved from the page, an invoice
\* deleted from the page
IsCreation == last'.op = "save_invoice" /\ current_invoice = << >>
IsDeletion == last'.op = "delete_invoice"

\* C4: invoice creations and deletions keep every non-service product's stock
\* equal to its initial stock less the quantities of the persisted items that
\* reference it.
StockFollowsPersistedItems ==
    [][((IsCreation \/ IsDeletion) /\ StockMatchesItems(db)) =>
          StockMatchesItems(db')]_vars

\* the number a blank-numbered new invoice is due: the setting, or "1001"
DueNumber(st) ==
    IF NextNumberKey \in DOMAIN st.settings THEN st.settings[NextNumberKey]
    ELSE DefaultNumber

\* C5: a new invoice saved with a blank number gets the setting's value
\* ("1001" when the setting is absent), and afterwards the setting holds that
\* number plus one.
BlankNumberTakesSettingAndAdvancesIt ==
    [][(last'.op = "save" /\ last'.ok /\ last'.out = << 0, << >> >>) =>
          /\ obj'[1].invoice_number = DueNumber(db)
          /\ NextNumberKey \in DOMAIN db'.settings
          /\ db'.settings[NextNumberKey] = ToStr(ParseInt(DueNumber(db)) + 1)]_vars

\* a save of a new invoice under a number that is given and is not a number
IsNonNumericNew(out) == out[1] = 0 /\ out[2] # << >> /\ ~IsNumeric(out[2])

\* C6: saving a new invoice with a non-numeric number succeeds (unless the
\* store fails a statement or the number is taken) and leaves the
\* next_invoice_number setting unchanged; saving an existing invoice leaves
\* it unchanged too.
NonNumericOrUpdateKeepsSetting ==
    [][last'.op = "save" =>
          /\ (IsNonNumericNew(last'.out) \/ last'.out[1] # 0) =>
                db'.settings = db.settings
          /\ (/\ IsNonNumericNew(last'.out)
              /\ faults' = faults
              /\ \A id \in DOMAIN db.invoices :
                    db.invoices[id].invoice_number # last'.out[2]) =>
                last'.ok]_vars

\* C6 happens: a new invoice numbered "A" was saved while the setting exists
NonNumericSaved ==
    /\ last.op = "save" /\ last.ok
    /\ last.out = << 0, << "A" >> >>
    /\ NextNumberKey \in DOMAIN db.settings
    /\ \E id \in DOMAIN db.invoices : db.invoices[id].invoice_number = << "A" >>

\* C7: once an invoice is 'paid', in the store or in memory, no add_payment
\* or mark_as_paid takes it back to 'partial' or 'pending'; stated for the
\* invoices whose recorded payments cover their total.
PaidNeverGoesBack ==
    [][last'.op \in {"add_payment", "mark_as_paid"} =>
          /\ \A id \in DOMAIN db.invoices :
                (/\ StatusInStore(db, id) = "paid"
                 /\ RLe(db.invoices[id].total, PaidInStore(db, id))) =>
                    StatusInStore(db', id) \notin {"partial", "pending"}
          /\ (/\ obj[1].status = "paid"
              /\ obj[1].id # 0
              /\ RLe(obj[1].total, PaidInStore(db, obj[1].id))) =>
                obj'[1].status \notin {"partial", "pending"}]_vars

\* C8: once an invoice is 'cancelled' in the store, no operation changes its
\* status.
CancelledIsTerminal ==
    [][\A id \in DOMAIN db.invoices :
          (StatusInStore(db, id) = "cancelled" /\ id \in DOMAIN db'.invoices) =>
              StatusInStore(db', id) = "cancelled"]_vars

\* C9: a mark_as_paid that returned, of the core or of the page, recorded
\* exactly one new payment, of the invoice's total, and set the status 'paid'
\* in memory and in the store; a get_payment_summary right after it, on an
\* invoice that had no payments before, reports paid = total and balance = 0.
MarkAsPaidRecordsTheTotal ==
    [][/\ (last'.op = "mark_as_paid" /\ last'.ok) =>
              /\ db'.payments = db.payments \cup
                    {[id |-> db.seq.payments + 1, invoice_id |-> obj[1].id,
                      amount |-> obj[1].total]}
              /\ Cardinality(db'.payments) = Cardinality(db.payments) + 1
              /\ obj'[1].status = "paid"
              /\ StatusInStore(db', obj[1].id) = "paid"
       /\ (last'.op = "record_payment" /\ last'.ok) =>
              /\ db'.payments = db.payments \cup
                    {[id |-> db.seq.payments + 1,
                      invoice_id |-> current_invoice[1].id,
                      amount |-> current_invoice[1].total]}
              /\ Cardinality(db'.payments) = Cardinality(db.payments) + 1
              /\ current_invoice'[1].status = "paid"
              /\ StatusInStore(db', current_invoice[1].id) = "paid"
       /\ (/\ last.op = "mark_as_paid" /\ last.ok /\ last.out = << 0 >>
           /\ last'.op = "get_payment_summary") =>
              /\ last'.out[1].paid = obj[1].total
              /\ last'.out[1].balance = Zero]_vars

\* C9 happens: an invoice with a total and no payments was marked as paid and
\* its summary was read
MarkedPaidAndSummarised ==
    /\ last.op = "get_payment_summary"
    /\ obj[1].id # 0 /\ obj[1].status = "paid"
    /\ RLt(Zero, obj[1].total)
    /\ last.out[1].paid = obj[1].total
    /\ PaymentsOf(db, obj[1].id) =
          {[id |-> db.seq.payments, invoice_id |-> obj[1].id, amount |-> obj[1].total]}

\* C10: an add_payment that leaves the invoice's payments summing to no more
\* than 0 (and to less than the total) leaves the status as it was, in memory
\* and in the store.
NothingPaidKeepsStatus ==
    [][(last'.op = "add_payment" /\ last'.ok) =>
          LET id == obj[1].id
              paid == PaidInStore(db', id)
          IN  (RLe(paid, Zero) /\ RLt(paid, obj[1].total)) =>
                  /\ obj'[1].status = obj[1].status
                  /\ StatusInStore(db', id) = StatusInStore(db, id)]_vars

\* what calculate_totals was called on, and the sum of quantity x unit_price
\* over an item list
Given == last.out[1]

RECURSIVE SumOfProducts(_)
SumOfProducts(items) ==
    IF items = << >> THEN Zero
    ELSE RAdd(RMul(FromInt(Head(items).quantity), Head(items).unit_price),
              SumOfProducts(Tail(items)))

\* C11: after calculate_totals on an invoice whose discount_percentage is
\* above 0, discount_amount x 100 = subtotal x discount_percentage, whatever
\* discount_amount the invoice carried.
PercentageWins ==
    (last.op = "calculate_totals" /\ RLt(Zero, Given.discount_percentage)) =>
        /\ RMul(obj[1].discount_amount, Hundred) =
               RMul(SumOfProducts(Given.items), Given.discount_percentage)
        /\ obj[1].discount_percentage = Given.discount_percentage

\* C11 happens: a percentage and an amount were both set, and they disagree
PercentageWonOverAmount ==
    /\ last.op = "calculate_totals"
    /\ Given.discount_percentage = FromInt(10)
    /\ Given.discount_amount = FromInt(40)
    /\ Given.subtotal = Zero
    /\ obj[1].subtotal = FromInt(100)
    /\ obj[1].discount_amount = FromInt(10)

\* C12: after calculate_totals on an invoice with discount_percentage 0 and
\* a discount_amount above 0, discount_amount is the smaller of that amount
\* and the subtotal, and discount_percentage x subtotal = discount_amount x
\* 100, or discount_percentage is still 0 when the subtotal is 0.
AmountIsClampedAndPercentageDerived ==
    (/\ last.op = "calculate_totals"
     /\ Given.discount_percentage = Zero
     /\ RLt(Zero, Given.discount_amount)) =>
        LET subtotal == SumOfProducts(Given.items)
        IN  /\ obj[1].discount_amount =
                   (IF RLe(Given.discount_amount, subtotal)
                    THEN Given.discount_amount ELSE subtotal)
            /\ IF subtotal = Zero
               THEN obj[1].discount_percentage = Zero
               ELSE RMul(obj[1].discount_percentage, subtotal) =
                       RMul(obj[1].discount_amount, Hundred)

\* C12 happens: an amount above the subtotal was clamped to it
AmountWasClamped ==
    /\ last.op = "calculate_totals"
    /\ Given.discount_percentage = Zero
    /\ Given.discount_amount = FromInt(200)
    /\ Given.subtotal = Zero
    /\ obj[1].subtotal = FromInt(130)
    /\ obj[1].discount_amount = FromInt(130)
    /\ obj[1].discount_percentage = Hundred

\* C13: after calculate_totals every item's total is quantity x unit_price,
\* subtotal is their sum, discounted_subtotal = subtotal - discount_amount,
\* tax_amount x 100 = discounted_subtotal x tax_rate, and total =
\* discounted_subtotal + tax_amount, which x 100 is
\* (subtotal - discount_amount) x (100 + tax_rate).
TotalsAreConsistent ==
    last.op = "calculate_totals" =>
        LET o == obj[1]
        IN  /\ \A i \in 1..Len(o.items) :
                   o.items[i].total =
                       RMul(FromInt(o.items[i].quantity), o.items[i].unit_price)
            /\ Len(o.items) = Len(Given.items)
            /\ o.subtotal = SumOfProducts(Given.items)
            /\ o.discounted_subtotal = RSub(o.subtotal, o.discount_amount)
            /\ RMul(o.tax_amount, Hundred) = RMul(o.discounted_subtotal, o.tax_rate)
            /\ o.total = RAdd(o.discounted_subtotal, o.tax_amount)
            /\ RMul(o.total, Hundred) =
                   RMul(RSub(o.subtotal, o.discount_amount), RAdd(Hundred, o.tax_rate))
            /\ o.tax_rate = Given.tax_rate

\* C13 happens: two items, a discount and a tax: 130 - 13 = 117, + 18 %
TotalsComputed ==
    /\ last.op = "calculate_totals"
    /\ Given.total = Zero
    /\ Len(obj[1].items) = 2
    /\ obj[1].subtotal = FromInt(130)
    /\ obj[1].discount_amount = FromInt(13)
    /\ obj[1].tax_rate = FromInt(18)
    /\ obj[1].total = Rat(13806, 100)

\* C14: with non-negative quantities, prices, discount inputs and tax rate,
\* calculate_totals leaves discount_amount <= subtotal and
\* discounted_subtotal, tax_amount and total >= 0.
DiscountNeverExceedsSubtotal ==
    last.op = "calculate_totals" =>
        /\ RLe(obj[1].discount_amount, obj[1].subtotal)
        /\ RLe(Zero, obj[1].discounted_subtotal)
        /\ RLe(Zero, obj[1].tax_amount)
        /\ RLe(Zero, obj[1].total)

\* the six results of calculate_totals
Totals(o) ==
    << o.subtotal, o.discount_amount, o.discount_percentage,
       o.discounted_subtotal, o.tax_amount, o.total >>

RowIsRecomputed(row, g) ==
    LET subtotal == SumOfProducts(g.items)
    IN  /\ row.subtotal = subtotal
        /\ IF RLt(Zero, g.discount_percentage)
           THEN RMul(row.discount_amount, Hundred) =
                    RMul(subtotal, g.discount_percentage)
           ELSE row.discount_amount =
                    (IF RLe(g.discount_amount, subtotal)
                     THEN g.discount_amount ELSE subtotal)
        /\ row.discounted_subtotal = RSub(subtotal, row.discount_amount)
        /\ RMul(row.tax_amount, Hundred) = RMul(row.discounted_subtotal, g.tax_rate)
        /\ row.total = RAdd(row.discounted_subtotal, row.tax_amount)

\* C16: every header row Invoice.save writes, inserting or updating, holds
\* subtotal, discount_amount, discounted_subtotal, tax_amount and total as
\* calculate_totals gives them for the invoice's items, discount driver and
\* tax rate at the save, whatever the invoice carried in those fields.
SavedHeaderIsRecomputed ==
    [][last'.op = "save" =>
          /\ \A id \in DOMAIN db'.invoices :
                (id \notin DOMAIN db.invoices \/ db'.invoices[id] # db.invoices[id]) =>
                    RowIsRecomputed(db'.invoices[id], obj[1])
          /\ (last'.ok /\ obj'[1].id \in DOMAIN db'.invoices) =>
                RowIsRecomputed(db'.invoices[obj'[1].id], obj[1])]_vars

\* C16 happens: a reloaded invoice whose items the caller replaced was saved
\* with the totals of its old items still on it
StaleTotalsWereRecomputed ==
    /\ last.op = "save" /\ last.ok /\ last.out[1] # 0
    /\ obj[1].id \in DOMAIN db.invoices
    /\ Len(obj[1].items) = 2
    /\ db.invoices[obj[1].id].subtotal = FromInt(130)
    /\ db.invoices[obj[1].id].discount_amount = FromInt(13)
    /\ db.invoices[obj[1].id].discounted_subtotal = FromInt(117)
    /\ db.invoices[obj[1].id].total = Rat(6903, 50)

\* C17: after an Invoice.save that returned, on an invoice that has an id,
\* the invoice_items rows of that invoice are its current items, one row
\* each and none of the earlier rows, and the rows of the other invoices are
\* as they were.
UpdateReplacesItems ==
    [][(last'.op = "save" /\ last'.ok /\ last'.out[1] # 0) =>
          LET id == obj[1].id
          IN  /\ Cardinality(ItemsOf(db', id)) = Len(obj'[1].items)
              /\ \A r \in ItemsOf(db', id) : r.id > db.seq.invoice_items
              /\ \A i \in 1..Len(obj'[1].items) :
                    \E r \in ItemsOf(db', id) :
                        /\ r.id = db.seq.invoice_items + i
                        /\ r.product_id = obj'[1].items[i].product_id
                        /\ r.quantity = obj'[1].items[i].quantity
                        /\ r.unit_price = obj'[1].items[i].unit_price
                        /\ r.total = obj'[1].items[i].total
              /\ Len(obj'[1].items) = Len(obj[1].items)
              /\ {r \in db'.invoice_items : r.invoice_id # id} =
                    {r \in db.invoice_items : r.invoice_id # id}]_vars

\* C17 happens: an invoice that had an item row was saved again with one
\* item, beside another invoice that has an item
ItemsWereReplaced ==
    /\ last.op = "save" /\ last.ok /\ last.out[1] # 0
    /\ Len(obj[1].items) = 1
    /\ Cardinality(ItemsOf(db, obj[1].id)) = 1
    /\ \A r \in ItemsOf(db, obj[1].id) : r.id > 2
    /\ \E other \in DOMAIN db.invoices :
          other # obj[1].id /\ ItemsOf(db, other) # {}

\* C18: in the invoice-save workflow stock changes only when an invoice is
\* created or deleted; a save of an existing invoice that succeeds leaves the
\* stock of every product as it was.
UpdateSaveKeepsStock ==
    [][(last'.op = "save_invoice" /\ last'.ok /\ current_invoice # << >>) =>
          \A pid \in DOMAIN db.products :
              db'.products[pid].stock = db.products[pid].stock]_vars

\* C19: the stock of a product flagged is_service is not changed by
\* Product.update_stock, by saving an invoice whose items refer to it, or by
\* deleting such an invoice.
ServiceStockIsNeverChanged ==
    [][last'.op \in {"update_stock", "save_invoice", "delete_invoice"} =>
          \A pid \in DOMAIN db.products :
              db.products[pid].is_service =>
                  /\ pid \in DOMAIN db'.products
                  /\ db'.products[pid].stock = db.products[pid].stock]_vars

\* C19 happens: an invoice with an item of a service was saved and then
\* deleted
ServiceInvoiceDeleted ==
    /\ last.op = "delete_invoice" /\ last.ok
    /\ db.seq.invoices > 0
    /\ db.seq.invoice_items > 0
    /\ \E pid \in DOMAIN db.products : db.products[pid].is_service

\* C20: deleting an invoice is atomic: when a step of delete_invoice fails
\* (a stock restore, the item delete or the header delete), the stock of the
\* products, the item rows of the invoice and its header row are afterwards
\* as they were before the call.
DeleteInvoiceIsAtomic ==
    [][(last'.op = "delete_invoice" /\ ~last'.ok) =>
          /\ db'.products = db.products
          /\ db'.invoice_items = db.invoice_items
          /\ db'.invoices = db.invoices]_vars

\* C21: a write that breaks the unique constraint (an invoice inserted under
\* a number that exists) is executed once, not retried by the store layer, and
\* its error reaches the caller of Invoice.save.
UniqueViolationIsNotRetried ==
    [][(last'.op = "save" /\ ~last'.ok /\ faults' = faults) =>
          last'.out[3] = 1]_vars

\* C22: when a read (fetch_one, fetch_all) or a write (execute) fails, the
\* store layer reconnects and retries the statement exactly once, and gives
\* the error to its caller when the retry fails too.
FailedStatementIsRetriedOnce ==
    [][(last'.op \in {"fetch_one", "execute"} /\ last'.out[1] # "none") =>
          /\ last'.out[2] = 2
          /\ last'.out[1] = "persistent" => ~last'.ok]_vars

\* C26: get_setting returns the stored value when the key exists and the
\* default when the key is absent or the read fails, and never raises;
\* set_setting returns true on success and false, without raising, when the
\* write fails; after a successful set_setting(key, v), get_setting(key, d)
\* returns v.
SettingsGetAndSet ==
    [][/\ last'.op = "get_setting" =>
            /\ last'.ok
            /\ last'.out[4] =
                  (IF last'.out[1] = "none" /\ last'.out[2] \in DOMAIN db.settings
                   THEN << db.settings[last'.out[2]] >>
                   ELSE last'.out[3])
       /\ last'.op = "set_setting" =>
            /\ last'.ok
            /\ last'.out[4] = (last'.out[1] # "persistent")
            /\ last'.out[4] =>
                  /\ last'.out[2] \in DOMAIN db'.settings
                  /\ db'.settings[last'.out[2]] = last'.out[3]
                  /\ \A d \in Defaults :
                        get_setting(db', last'.out[2], d, "none") = << last'.out[3] >>
            /\ ~last'.out[4] => db' = db]_vars

\* C26 happens: a value set earlier came back from get_setting called with
\* a default, over a store that has failed a statement
SetValueWasRead ==
    /\ last.op = "get_setting"
    /\ last.out[2] = "company_name"
    /\ last.out[3] = << << "d" >> >>
    /\ last.out[4] = << << "A" >> >>
    /\ faults = MaxFaults

\* C23: deleting a product through the product workflow is rejected, no row
\* removed, while an invoice_items row refers to the product, and removes the
\* product row once no invoice_items row refers to it and the user confirms.
ProductDeletedOnceUnreferenced ==
    [][last'.op = "delete_selected_product" =>
          LET pid == last'.out[1]
          IN  /\ ProductReferences(db, pid) # {} => db'.products = db.products
              /\ (ProductReferences(db, pid) = {} /\ last'.out[3]) =>
                    pid \notin DOMAIN db'.products]_vars

\* C24: no operation removes or alters a recorded payment: over add_payment,
\* mark_as_paid, Invoice.save on either path and the deletion of invoices,
\* the persisted payment rows only grow and each keeps its invoice reference
\* and its amount.
PaymentsOnlyGrow ==
    [][\A r \in db.payments :
          \E q \in db'.payments :
              /\ q.id = r.id
              /\ q.invoice_id = r.invoice_id
              /\ q.amount = r.amount]_vars

\* C24 happens: an invoice that had a payment was deleted, then another
\* invoice was saved and paid
PaymentOutlivedItsInvoice ==
    /\ last.op \in {"add_payment", "mark_as_paid"} /\ last.ok
    /\ \E r \in db.payments : r.invoice_id \notin DOMAIN db.invoices
    /\ \E r \in db.payments : r.invoice_id \in DOMAIN db.invoices

\* C30: in every reachable state every persisted payment row and every
\* persisted invoice_items row refers to an invoice row that exists, also
\* after invoices that have payments are deleted.
RowsReferToExistingInvoices ==
    /\ \A r \in db.payments : r.invoice_id \in DOMAIN db.invoices
    /\ \A r \in db.invoice_items : r.invoice_id \in DOMAIN db.invoices

\* C25: deleting a customer removes the customer row and nothing else: every
\* invoice that referred to the customer is still there with its items,
\* totals and status as before, its customer reference dangling or null.
DeleteCustomerLeavesInvoices ==
    [][last'.op = "delete_customer" =>
          /\ db'.invoices = db.invoices
          /\ db'.invoice_items = db.invoice_items
          /\ db'.payments = db.payments
          /\ (last'.ok /\ last'.out[2]) =>
                db'.customers = Drop(db.customers, last'.out[1])
          /\ ~(last'.ok /\ last'.out[2]) => db'.customers = db.customers]_vars

\* C25 happens: a customer that had an invoice was deleted and the invoice
\* still names the customer
InvoiceOfDeletedCustomer ==
    /\ last.op = "delete_customer" /\ last.ok /\ last.out[2]
    /\ last.out[1] \notin DOMAIN db.customers
    /\ InvoicesOfCustomer(db, last.out[1]) # {}

\* lower case of a character, as LIKE compares ASCII letters
Lower(c) == IF c = "A" THEN "a" ELSE IF c = "B" THEN "b" ELSE c

\* q occurs in s, letters compared without case
Contains(s, q) ==
    \E i \in 0..(Len(s) - Len(q)) :
        \A k \in 1..Len(q) : Lower(s[i + k]) = Lower(q[k])

\* C27: Customer.search(query) returns exactly the customers whose name,
\* email or phone contains the query as a substring, case ignored.
SearchReturnsTheMatches ==
    [][last'.op = "search" =>
          last'.out[2] =
              {cid \in DOMAIN db.customers :
                  \/ Contains(db.customers[cid].name, last'.out[1])
                  \/ Contains(db.customers[cid].email, last'.out[1])
                  \/ Contains(db.customers[cid].phone, last'.out[1])}]_vars

\* C28: over successful saves of new invoices, numbered from the setting or
\* by the caller with a numeric number, next_invoice_number never decreases,
\* so it is never the invoice_number of a persisted invoice and a save
\* numbered from the setting does not collide.
NextNumberNeverDecreases ==
    [][(/\ last'.op = "save" /\ last'.ok /\ last'.out[1] = 0
        /\ NextNumberKey \in DOMAIN db.settings) =>
          /\ NextNumberKey \in DOMAIN db'.settings
          /\ ParseInt(db'.settings[NextNumberKey]) >= ParseInt(db.settings[NextNumberKey])
          /\ \A i \in DOMAIN db'.invoices :
                db'.invoices[i].invoice_number # db'.settings[NextNumberKey]]_vars

\* C29: loading a persisted invoice into the invoice form and saving it again
\* with no edit in between leaves its persisted discount_amount,
\* discount_percentage, discounted_subtotal, tax_amount and total as they were
\* stored before the load.
ReloadAndSaveKeepsTotals ==
    [][(/\ last.op = "load_invoice_data"
        /\ last'.op = "save_invoice" /\ last'.ok
        /\ current_invoice # << >>) =>
          LET id == current_invoice[1].id
          IN  /\ id \in DOMAIN db'.invoices
              /\ db'.invoices[id].discount_amount = db.invoices[id].discount_amount
              /\ db'.invoices[id].discount_percentage =
                    db.invoices[id].discount_percentage
              /\ db'.invoices[id].discounted_subtotal =
                    db.invoices[id].discounted_subtotal
              /\ db'.invoices[id].tax_amount = db.invoices[id].tax_amount
              /\ db'.invoices[id].total = db.invoices[id].total]_vars

====
